---- MODULE Spec2Model ----
(***************************************************************************)
(* mopidy_mpd network front end: Server (listener), Connection (socket,    *)
(* send buffer, GLib watches) and LineProtocol / MpdSession (the pykka     *)
(* actor that frames lines), as a state machine.                           *)
(*                                                                         *)
(* Two kinds of thread exist.  The GLib main-loop thread runs every        *)
(* callback (handle_connection, recv_callback, send_callback,              *)
(* timeout_callback); its position is the variable loop.  Each connection  *)
(* has one actor thread (pykka.ThreadingActor); its position is            *)
(* conn[c].wpc.  Steps of the two kinds of thread interleave freely.       *)
(*                                                                         *)
(* Bytes are modelled as members of small sets: outbound bytes are         *)
(* numbered 1, 2, 3, ... in the order the worker produces them, so any     *)
(* loss, duplication or reordering shows; inbound bytes are "a" (a         *)
(* payload byte), "r" (carriage return), "n" (newline) and "x" (a byte     *)
(* that is not valid in the configured encoding).                          *)
(***************************************************************************)
EXTENDS Integers, Sequences, FiniteSets, TLC

\* ------------------------------------------------------------------ bounds
MaxConns == 2        \* connection slots of the model
MaxSend == 3         \* outbound bytes one worker produces
MaxResp == 2         \* longest response to one line, in bytes
GreetLen == 1        \* bytes of the greeting line sent by MpdSession.on_start
MaxStream == 2       \* inbound bytes one peer sends
MaxFrameStream == 5  \* inbound bytes of the framing-only specification
MaxDecodeStream == 4 \* inbound bytes of the decoding-only specification
MaxStopStream == 1   \* inbound bytes of the specification of I/O-side stops
MaxPeerStream == 2   \* inbound bytes per client of the two-client listener
MaxEntryLen == 1     \* characters or bytes in one entry of a response
MaxLines == 2        \* entries in one response given to send_lines

RecvSize == 2        \* most bytes one recv returns (the code reads 4096)

\* ------------------------------------------------------- program constants
DefaultTimeout == 30 \* Server.__init__(timeout=30)
None == -1           \* Python's None where an integer is expected

Conns == 1..MaxConns

VARIABLES conn, loop, server

vars == <<conn, loop, server>>

\* ----------------------------------------------------------------- helpers
Range(s) == {s[i] : i \in 1..Len(s)}

IsPrefix(s, t) == Len(s) <= Len(t) /\ SubSeq(t, 1, Len(s)) = s

NonEmptySeqsUpTo(S, n) == UNION {[1..k -> S] : k \in 1..n}

\* The bytes a..b as a sequence (empty when b < a).
Bytes(a, b) == [i \in 1..(b - a + 1) |-> a + i - 1]

\* ----------------------------------------------------- line framing (pure)
\* LineProtocol.terminator = b"\n"; MpdSession.terminator is the same byte.
terminator == "n"

\* Index of the first occurrence of byte b in buf, 0 when there is none
\* (re.search(self.terminator, self.recv_buffer)).
RECURSIVE FindFrom(_, _, _)
FindFrom(buf, b, i) ==
    IF i > Len(buf) THEN 0
    ELSE IF buf[i] = b THEN i
    ELSE FindFrom(buf, b, i + 1)

search(buf) == FindFrom(buf, terminator, 1)

\* Where the leftmost match of the delimiter starts, given that the first
\* terminator is at index i.  LineProtocol compiles its delimiter from the
\* terminator; MpdSession sets delimiter = br"\r?\n", whose leftmost match
\* starts one byte early when a carriage return precedes the newline.
delimiter_start(protocol, buf, i) ==
    IF protocol = "MpdSession" /\ i > 1 /\ buf[i - 1] = "r" THEN i - 1 ELSE i

\* self.delimiter.split(self.recv_buffer, 1): <<line, rest>>.
split(protocol, buf) ==
    LET i == search(buf)
        s == delimiter_start(protocol, buf, i)
    IN  <<SubSeq(buf, 1, s - 1), SubSeq(buf, i + 1, Len(buf))>>

\* LineProtocol.parse_lines run to exhaustion on recv_buffer = buf:
\* [lines |-> the lines yielded, in order, rest |-> recv_buffer afterwards].
RECURSIVE parse_lines(_, _)
parse_lines(protocol, buf) ==
    IF search(buf) = 0 THEN [lines |-> <<>>, rest |-> buf]
    ELSE LET sp == split(protocol, buf)
             more == parse_lines(protocol, sp[2])
         IN  [lines |-> <<sp[1]>> \o more.lines, rest |-> more.rest]

\* on_receive forgetting the unframed rest: "self.recv_buffer = ...".
recv_replace(recv_buffer, data) == data

\* What on_receive does to the receive buffer with one notification:
\* self.recv_buffer += message["received"].
recv_append(recv_buffer, data) == recv_buffer \o data

\* line.decode(self.encoding): the text of a line of valid bytes (each byte
\* becomes its character, written in upper case), None when a byte of the
\* line is not valid in the encoding (UnicodeError).
CharOf(b) == CASE b = "a" -> "A" [] b = "r" -> "R" [] b = "n" -> "N" [] OTHER -> "?"

decodable(line) == "x" \notin Range(line)

decode(line) == [i \in 1..Len(line) |-> CharOf(line[i])]

\* The lines of a whole stream that on_line_received is to see, in order.
RECURSIVE DecodedLines(_)
DecodedLines(ls) ==
    IF ls = <<>> THEN <<>>
    ELSE IF decodable(Head(ls)) THEN <<decode(Head(ls))>> \o DecodedLines(Tail(ls))
    ELSE DecodedLines(Tail(ls))

\* ------------------------------------------------- Connection: the record
\* A slot that holds no connection.
NoConnection ==
    [state |-> "none", protocol |-> "LineProtocol", timeout |-> None,
     stopping |-> FALSE, sock |-> "closed",
     recv_id |-> FALSE, send_id |-> FALSE, timeout_id |-> FALSE,
     timer_src |-> FALSE,
     send_lock |-> "free", send_buffer |-> <<>>,
     alive |-> FALSE, inbox |-> <<>>,
     recv_buffer |-> <<>>, prevent_timeout |-> FALSE, lines |-> <<>>,
     wpc |-> "dead", wret |-> "dead", wreason |-> "", qret |-> "dead",
     wdata |-> <<>>, reason |-> "",
     made |-> 0, enq |-> <<>>, osSent |-> <<>>, sendFailed |-> FALSE,
     stream |-> <<>>, delivered |-> <<>>, handled |-> 0,
     stops |-> 0, closes |-> 0, stopDone |-> FALSE, again |-> FALSE,
     raised |-> FALSE, decodeFailed |-> FALSE, deferred |-> FALSE,
     closeSeen |-> FALSE, sent_lines |-> <<>>]

\* Connection.enable_timeout (with disable_timeout inlined below it).
\* timeout_id is the attribute (TRUE: not None); timer_src is GLib's
\* single-shot source, which timeout_callback's False return removes
\* without the attribute being reset.
disable_timeout(r) ==
    IF ~r.timeout_id THEN r
    ELSE [r EXCEPT !.timeout_id = FALSE, !.timer_src = FALSE]

enable_timeout(r) ==
    IF r.timeout = None \/ r.timeout <= 0 THEN r
    ELSE [disable_timeout(r) EXCEPT !.timeout_id = TRUE, !.timer_src = TRUE]

enable_recv(r) ==
    IF r.recv_id THEN r ELSE [r EXCEPT !.recv_id = TRUE]

disable_recv(r) ==
    IF ~r.recv_id THEN r ELSE [r EXCEPT !.recv_id = FALSE]

enable_send(r) ==
    IF r.send_id THEN r ELSE [r EXCEPT !.send_id = TRUE]

disable_send(r) ==
    IF ~r.send_id THEN r ELSE [r EXCEPT !.send_id = FALSE]

\* Connection.__init__: the fields, the actor started (registered and
\* alive, its thread before on_start), then enable_recv and enable_timeout.
Connection(protocol, timeout) ==
    enable_timeout(enable_recv(
        [NoConnection EXCEPT !.state = "live", !.protocol = protocol,
                             !.timeout = timeout, !.sock = "open",
                             !.alive = TRUE, !.wpc = "start",
                             !.wret = "idle", !.qret = "idle"]))

\* ------------------------------------- encode, join_lines, send_lines (pure)
\* An entry of a response: text (str) or raw bytes.
Text(v) == [bytes |-> FALSE, v |-> v]

Raw(v) == [bytes |-> TRUE, v |-> v]

SeqsUpTo(S, n) == UNION {[1..k -> S] : k \in 0..n}

\* The characters of text entries ("S": one the encoding cannot represent,
\* such as a lone surrogate) and the bytes of raw entries.
TextAlphabet == {"A", "S"}

RawAlphabet == {"a"}

\* line.encode(self.encoding), character by character.
ByteOf(ch) ==
    CASE ch = "A" -> "a" [] ch = "R" -> "r" [] ch = "N" -> "n" [] OTHER -> "?"

encodable(line) == "S" \notin Range(line)

\* LineProtocol.encode: the bytes, or None after the UnicodeError (the
\* self.stop() it calls first is in encode_stops).
encode(line) ==
    IF encodable(line)
    THEN [none |-> FALSE, v |-> [i \in 1..Len(line) |-> ByteOf(line[i])]]
    ELSE [none |-> TRUE, v |-> <<>>]

\* The for loop of send_lines: encoded_lines.
encoded_lines(lines) ==
    [i \in 1..Len(lines) |->
        IF lines[i].bytes THEN [none |-> FALSE, v |-> lines[i].v]
        ELSE encode(lines[i].v)]

\* bytes.join: the items with sep between neighbours.
RECURSIVE join(_, _)
join(sep, items) ==
    IF items = <<>> THEN <<>>
    ELSE IF Len(items) = 1 THEN items[1].v
    ELSE items[1].v \o sep \o join(sep, Tail(items))

\* A join that tolerates None among the items.
join_raises_never(items) == FALSE

\* bytes.join raises TypeError when an item is None.
join_raises(items) == \E i \in DOMAIN items : items[i].none

\* join_lines without the terminator after the last line.
join_lines_no_tail(lines) ==
    IF lines = <<>> THEN <<>> ELSE join(<<terminator>>, lines)

\* LineProtocol.join_lines.
join_lines(lines) ==
    IF lines = <<>> THEN <<>>
    ELSE join(<<terminator>>, lines) \o <<terminator>>

\* ------------------------------------------------------ pykka: the mailbox
Msg(t, data) == [t |-> t, data |-> data]

\* A mailbox that hands out the newest message first.
tell_front(inbox, m) == <<m>> \o inbox

\* ActorRef.tell on a live actor: the message joins the inbox at its tail.
tell(inbox, m) == Append(inbox, m)

\* A stop() that does not signal the worker.
actor_stop_lost(r) == r

\* actor_ref.stop(block=False), and Actor.stop() from inside the actor: a
\* stop message is queued behind what is already in the inbox; on a dead
\* actor nothing happens (ActorDeadError is swallowed).
actor_stop(r) ==
    IF r.alive THEN [r EXCEPT !.inbox = tell(@, Msg("stop", <<>>))] ELSE r

\* ------------------------------------------------------- Connection.stop
StopPcs == {"stop_check", "stop_set", "stop_signal", "stop_timeout",
            "stop_recv", "stop_send", "stop_close"}

\* stop() without its guard.
stop_check_never(r) == FALSE

\* "if self.stopping: ... return": TRUE when the call returns at once.
stop_check(r) == r.stopping

\* The socket close at the end of stop().  An OSError from close() is
\* swallowed, so both outcomes of the call leave the same state: the socket
\* object is closed and stop() returns.
sock_close(r) ==
    [r EXCEPT !.sock = "closed", !.closes = @ + 1, !.stopDone = TRUE]

\* A stop() in which ActorDeadError ends the call: with a dead worker the
\* watches stay and the socket stays open.
stop_step_dead_returns(r, pc, reason) ==
    CASE pc = "stop_check" ->
            IF stop_check(r)
            THEN [r |-> [r EXCEPT !.again = @ \/ r.stopDone], pc |-> "ret"]
            ELSE [r |-> r, pc |-> "stop_set"]
      [] pc = "stop_set" ->
            [r |-> [r EXCEPT !.stopping = TRUE, !.stops = @ + 1,
                             !.reason = reason],
             pc |-> "stop_signal"]
      [] pc = "stop_signal" ->
            IF r.alive THEN [r |-> actor_stop(r), pc |-> "stop_timeout"]
            ELSE [r |-> r, pc |-> "ret"]
      [] pc = "stop_timeout" -> [r |-> disable_timeout(r), pc |-> "stop_recv"]
      [] pc = "stop_recv" -> [r |-> disable_recv(r), pc |-> "stop_send"]
      [] pc = "stop_send" -> [r |-> disable_send(r), pc |-> "stop_close"]
      [] pc = "stop_close" -> [r |-> sock_close(r), pc |-> "ret"]

\* One step of stop() taken at position pc by either kind of thread:
\* [r |-> the connection afterwards, pc |-> the next position, "ret" when
\* stop() returns].  The test of stopping and the assignment to it are two
\* steps: nothing in the code makes them one.  (again records that a call
\* made after a completed stop() has returned at its guard; reason is the
\* reason logged by the call that went past the guard.)
stop_step(r, pc, reason) ==
    CASE pc = "stop_check" ->
            IF stop_check(r)
            THEN [r |-> [r EXCEPT !.again = @ \/ r.stopDone], pc |-> "ret"]
            ELSE [r |-> r, pc |-> "stop_set"]
      [] pc = "stop_set" ->
            [r |-> [r EXCEPT !.stopping = TRUE, !.stops = @ + 1,
                             !.reason = reason],
             pc |-> "stop_signal"]
      [] pc = "stop_signal" -> [r |-> actor_stop(r), pc |-> "stop_timeout"]
      [] pc = "stop_timeout" -> [r |-> disable_timeout(r), pc |-> "stop_recv"]
      [] pc = "stop_recv" -> [r |-> disable_recv(r), pc |-> "stop_send"]
      [] pc = "stop_send" -> [r |-> disable_send(r), pc |-> "stop_close"]
      [] pc = "stop_close" -> [r |-> sock_close(r), pc |-> "ret"]

\* --------------------------------------------------------- Connection.send
\* send() keeping one byte too few: "return data[sent + 1:]".
send_rest_short(data, sent) == SubSeq(data, sent + 2, Len(data))

\* "return data[sent:]": what send() returns when the OS accepted sent bytes.
send_rest(data, sent) == SubSeq(data, sent + 1, Len(data))

\* What queue_send hands to send(): self.send_buffer + data.
queue_data(send_buffer, data) == send_buffer \o data

Set(c, r) == conn' = [conn EXCEPT ![c] = r]

Idle == [pc |-> "idle", c |-> 0, ret |-> "idle", reason |-> ""]

WorkerAt(c, pc) == conn[c].state = "live" /\ conn[c].wpc = pc

\* ============================================== the worker (actor) thread
\* MpdSession.on_start: send_lines([greeting]); LineProtocol has no on_start.
on_start(c) ==
    /\ WorkerAt(c, "start")
    /\ LET r == conn[c] IN
       IF r.protocol = "MpdSession"
       THEN Set(c, [r EXCEPT !.wdata = Bytes(r.made + 1, r.made + GreetLen),
                             !.made = @ + GreetLen,
                             !.wpc = "qs_acquire", !.qret = "idle"])
       ELSE Set(c, [r EXCEPT !.wpc = "idle"])
    /\ UNCHANGED <<loop, server>>

\* The actor loop takes a stop message: the actor leaves the registry, then
\* on_stop runs connection.stop("Actor is shutting down.").
ActorStop(c) ==
    /\ WorkerAt(c, "idle")
    /\ conn[c].inbox # <<>> /\ Head(conn[c].inbox).t = "stop"
    /\ Set(c, [conn[c] EXCEPT !.inbox = Tail(@), !.alive = FALSE,
                              !.wpc = "stop_check", !.wret = "dead",
                              !.wreason = "shutting_down"])
    /\ UNCHANGED <<loop, server>>

\* on_receive dropping the closing notification: return without stop().
OnClose_returns(c) ==
    /\ WorkerAt(c, "idle")
    /\ conn[c].inbox # <<>> /\ Head(conn[c].inbox).t = "close"
    /\ Set(c, [conn[c] EXCEPT !.inbox = Tail(@), !.closeSeen = TRUE])
    /\ UNCHANGED <<loop, server>>

\* on_receive, "close" in message: connection.stop("Client most likely
\* disconnected."), then back to the actor loop.  (closeSeen records that
\* the worker has taken the closing notification.)
OnClose(c) ==
    /\ WorkerAt(c, "idle")
    /\ conn[c].inbox # <<>> /\ Head(conn[c].inbox).t = "close"
    /\ Set(c, [conn[c] EXCEPT !.inbox = Tail(@), !.closeSeen = TRUE,
                              !.wpc = "stop_check", !.wret = "idle",
                              !.wreason = "disconnected"])
    /\ UNCHANGED <<loop, server>>

\* on_receive, "received" in message: disable_timeout, append to recv_buffer,
\* frame the lines of parse_lines.
\* A "received" notification handled by an actor whose on_start has not run.
OnReceived_before_start(c) ==
    /\ WorkerAt(c, "idle") \/ WorkerAt(c, "start")
    /\ conn[c].inbox # <<>> /\ Head(conn[c].inbox).t = "received"
    /\ LET r == disable_timeout(conn[c])
           p == parse_lines(r.protocol,
                            recv_append(r.recv_buffer, Head(r.inbox).data))
       IN  Set(c, [r EXCEPT !.inbox = Tail(@), !.recv_buffer = p.rest,
                            !.lines = p.lines, !.handled = @ + 1,
                            !.wpc = "rx_line"])
    /\ UNCHANGED <<loop, server>>

OnReceived(c) ==
    /\ WorkerAt(c, "idle")
    /\ conn[c].inbox # <<>> /\ Head(conn[c].inbox).t = "received"
    /\ LET r == disable_timeout(conn[c])
           p == parse_lines(r.protocol,
                            recv_append(r.recv_buffer, Head(r.inbox).data))
       IN  Set(c, [r EXCEPT !.inbox = Tail(@), !.recv_buffer = p.rest,
                            !.lines = p.lines, !.handled = @ + 1,
                            !.wpc = "rx_line"])
    /\ UNCHANGED <<loop, server>>

\* decode() fails on the next line: self.stop() and None, so the line is
\* skipped and the for loop goes on.
LineDecodeFails(c) ==
    /\ WorkerAt(c, "rx_line")
    /\ conn[c].lines # <<>> /\ ~decodable(Head(conn[c].lines))
    /\ Set(c, [actor_stop(conn[c]) EXCEPT !.lines = Tail(@),
                                          !.decodeFailed = TRUE])
    /\ UNCHANGED <<loop, server>>

Deliverable(c) ==
    /\ WorkerAt(c, "rx_line")
    /\ conn[c].lines # <<>> /\ decodable(Head(conn[c].lines))

\* The connection with the next line handed to on_line_received.
on_line_received(r) ==
    [r EXCEPT !.delivered = Append(@, decode(Head(r.lines))),
              !.lines = Tail(@)]

\* on_line_received, the dispatcher returns no response.
LineNoResponse(c) ==
    /\ Deliverable(c)
    /\ Set(c, on_line_received(conn[c]))
    /\ UNCHANGED <<loop, server>>

\* on_line_received, the dispatcher returns a response of k bytes:
\* send_lines(response) -> connection.queue_send.
LineResponse(c) ==
    /\ Deliverable(c)
    /\ \E k \in 1..MaxResp :
          /\ conn[c].made + k <= MaxSend
          /\ LET r == on_line_received(conn[c]) IN
             Set(c, [r EXCEPT !.wdata = Bytes(r.made + 1, r.made + k),
                              !.made = @ + k,
                              !.wpc = "qs_acquire", !.qret = "rx_line"])
    /\ UNCHANGED <<loop, server>>

\* on_line_received, the command is "close": context.session.close() ->
\* MpdSession.close -> self.stop().
LineClose(c) ==
    /\ Deliverable(c)
    /\ Set(c, actor_stop(on_line_received(conn[c])))
    /\ UNCHANGED <<loop, server>>

\* on_line_received raises: the actor loop marks the actor dead and calls
\* on_failure -> connection.stop("Actor failed."); the thread ends after it.
LineRaises(c) ==
    /\ Deliverable(c)
    /\ Set(c, [on_line_received(conn[c]) EXCEPT
                   !.alive = FALSE, !.lines = <<>>,
                   !.wpc = "stop_check", !.wret = "dead",
                   !.wreason = "failed"])
    /\ UNCHANGED <<loop, server>>

\* on_line_received, the handler switches self.prevent_timeout (a command
\* that opens or ends an exchange during which the client may stay silent)
\* and returns no response.
LinePreventTimeout(c) ==
    /\ Deliverable(c)
    /\ Set(c, [on_line_received(conn[c]) EXCEPT
                   !.prevent_timeout = ~conn[c].prevent_timeout])
    /\ UNCHANGED <<loop, server>>

\* The self.stop() of every encode() that failed, in list order.
RECURSIVE encode_stops(_, _)
encode_stops(r, items) ==
    IF items = <<>> THEN r
    ELSE encode_stops(IF Head(items).none THEN actor_stop(r) ELSE r,
                      Tail(items))

\* The responses a line handler gives to send_lines.
Entries ==
    {Text(v) : v \in SeqsUpTo(TextAlphabet, MaxEntryLen)}
        \cup {Raw(v) : v \in SeqsUpTo(RawAlphabet, MaxEntryLen)}

Responses == UNION {[1..k -> Entries] : k \in 0..MaxLines}

\* on_line_received -> send_lines(lines): nothing for an empty list;
\* otherwise every entry is encoded or taken as it is, and the joined
\* bytes go to queue_send in one call.  When an entry cannot be encoded the
\* join raises TypeError out of the handler: the actor is marked dead and
\* on_failure runs connection.stop("Actor failed.").
LineSendLines(c) ==
    /\ Deliverable(c)
    /\ \E lines \in Responses :
          LET r == [on_line_received(conn[c]) EXCEPT !.sent_lines = lines]
              items == encoded_lines(lines)
          IN  IF lines = <<>> THEN Set(c, r)
              ELSE IF join_raises(items)
              THEN Set(c, [encode_stops(r, items) EXCEPT
                              !.alive = FALSE, !.lines = <<>>,
                              !.wpc = "stop_check", !.wret = "dead",
                              !.wreason = "failed"])
              ELSE Set(c, [encode_stops(r, items) EXCEPT
                              !.wdata = join_lines(items),
                              !.made = @ + Len(join_lines(items)),
                              !.wpc = "qs_acquire", !.qret = "rx_line"])
    /\ UNCHANGED <<loop, server>>

\* The end of on_receive arming the timer whatever prevent_timeout says.
OnReceiveEnd_always_arms(c) ==
    /\ WorkerAt(c, "rx_line")
    /\ conn[c].lines = <<>>
    /\ Set(c, [enable_timeout(conn[c]) EXCEPT !.wpc = "idle"])
    /\ UNCHANGED <<loop, server>>

\* The end of on_receive: "if not self.prevent_timeout: enable_timeout()".
OnReceiveEnd(c) ==
    /\ WorkerAt(c, "rx_line")
    /\ conn[c].lines = <<>>
    /\ LET r == conn[c]
           e == IF r.prevent_timeout THEN r ELSE enable_timeout(r)
       IN  Set(c, [e EXCEPT !.wpc = "idle"])
    /\ UNCHANGED <<loop, server>>

\* ---- Connection.queue_send, run by the worker
\* queue_send going ahead without the lock being free.
QsAcquire_barges(c) ==
    /\ WorkerAt(c, "qs_acquire")
    /\ Set(c, [conn[c] EXCEPT !.send_lock = "worker", !.wpc = "qs_send"])
    /\ UNCHANGED <<loop, server>>

\* self.send_lock.acquire(True): waits for the lock.
QsAcquire(c) ==
    /\ WorkerAt(c, "qs_acquire")
    /\ conn[c].send_lock = "free"
    /\ Set(c, [conn[c] EXCEPT !.send_lock = "worker", !.wpc = "qs_send"])
    /\ UNCHANGED <<loop, server>>

\* self.send_buffer = self.send(self.send_buffer + data), the OS accepting
\* the first n bytes; then the lock is released.
QsSendAccepts(c) ==
    /\ WorkerAt(c, "qs_send")
    /\ conn[c].sock = "open"
    /\ LET r == conn[c]
           data == queue_data(r.send_buffer, r.wdata)
       IN  \E n \in 0..Len(data) :
              Set(c, [r EXCEPT !.osSent = @ \o SubSeq(data, 1, n),
                               !.send_buffer = send_rest(data, n),
                               !.enq = @ \o r.wdata, !.wdata = <<>>,
                               !.send_lock = "free", !.wpc = "qs_check"])
    /\ UNCHANGED <<loop, server>>

\* ... the send raising EWOULDBLOCK or EINTR: send() returns data whole.
QsSendWouldBlock(c) ==
    /\ WorkerAt(c, "qs_send")
    /\ conn[c].sock = "open"
    /\ LET r == conn[c] IN
       Set(c, [r EXCEPT !.send_buffer = queue_data(r.send_buffer, r.wdata),
                        !.enq = @ \o r.wdata, !.wdata = <<>>,
                        !.send_lock = "free", !.wpc = "qs_check"])
    /\ UNCHANGED <<loop, server>>

\* ... the send raising another OSError (always so on a closed socket):
\* send() calls stop() with the lock held, then returns b"".
QsSendFails(c) ==
    /\ WorkerAt(c, "qs_send")
    /\ LET r == conn[c] IN
       Set(c, [r EXCEPT !.enq = @ \o r.wdata, !.wdata = <<>>,
                        !.sendFailed = TRUE,
                        !.wpc = "stop_check", !.wret = "qs_fail",
                        !.wreason = "client_error"])
    /\ UNCHANGED <<loop, server>>

QsFailed(c) ==
    /\ WorkerAt(c, "qs_fail")
    /\ Set(c, [conn[c] EXCEPT !.send_buffer = <<>>, !.send_lock = "free",
                              !.wpc = "qs_check"])
    /\ UNCHANGED <<loop, server>>

\* queue_send that never arms the write watch.
QsCheck_never_arms(c) ==
    /\ WorkerAt(c, "qs_check")
    /\ Set(c, [conn[c] EXCEPT !.wpc = conn[c].qret])
    /\ UNCHANGED <<loop, server>>

\* "if self.send_buffer:", read after the lock was released.
QsCheck(c) ==
    /\ WorkerAt(c, "qs_check")
    /\ LET r == conn[c] IN
       Set(c, [r EXCEPT !.wpc = IF r.send_buffer # <<>> THEN "qs_enable"
                                 ELSE r.qret])
    /\ UNCHANGED <<loop, server>>

\* self.enable_send().  On a closed socket fileno() is -1 and what GLib does
\* with it is not decided by this code: see QsEnableFails.
QsEnable(c) ==
    /\ WorkerAt(c, "qs_enable")
    /\ LET r == conn[c] IN Set(c, [enable_send(r) EXCEPT !.wpc = r.qret])
    /\ UNCHANGED <<loop, server>>

\* enable_send(), io_add_watch raising OSError: stop("Problem with
\* connection").
QsEnableFails(c) ==
    /\ WorkerAt(c, "qs_enable")
    /\ ~conn[c].send_id /\ conn[c].sock = "closed"
    /\ LET r == conn[c] IN
       Set(c, [r EXCEPT !.wpc = "stop_check", !.wret = r.qret,
                        !.wreason = "watch_error"])
    /\ UNCHANGED <<loop, server>>

\* A step of Connection.stop run by the worker.
WorkerStop(c) ==
    /\ conn[c].state = "live" /\ conn[c].wpc \in StopPcs
    /\ LET r == conn[c]
           e == stop_step(r, r.wpc, r.wreason)
       IN  Set(c, IF e.pc = "ret"
                  THEN [e.r EXCEPT !.wpc = r.wret, !.wreason = ""]
                  ELSE [e.r EXCEPT !.wpc = e.pc])
    /\ UNCHANGED <<loop, server>>

\* ================================================ the GLib main-loop thread
\* The inbound byte values a peer sends: a payload byte, the newline and a
\* byte the encoding rejects (the carriage return joins them in the
\* framing-only specification).
Alphabet == {"a", "n", "x"}

LoopIdle == loop.pc = "idle"

Call(c, pc, ret, reason) ==
    loop' = [pc |-> pc, c |-> c, ret |-> ret, reason |-> reason]

\* ---- Connection.recv_callback, which runs while the read watch is armed
\* flags & (IO_ERR | IO_HUP): stop("Bad client flags").
RecvFlags(c) ==
    /\ LoopIdle /\ conn[c].recv_id
    /\ Call(c, "stop_check", "idle", "bad_flags")
    /\ UNCHANGED <<conn, server>>

\* A transient recv error that removes the read watch (return False).
RecvRetry_drops_watch(c) ==
    /\ LoopIdle /\ conn[c].recv_id /\ conn[c].sock = "open"
    /\ Set(c, disable_recv(conn[c]))
    /\ UNCHANGED <<loop, server>>

\* recv raises EWOULDBLOCK or EINTR: return True, nothing else.
RecvRetry(c) ==
    /\ LoopIdle /\ conn[c].recv_id /\ conn[c].sock = "open"
    /\ UNCHANGED <<conn, loop, server>>

\* recv raises another OSError: stop("Unexpected client error").
RecvError(c) ==
    /\ LoopIdle /\ conn[c].recv_id
    /\ Call(c, "stop_check", "idle", "client_error")
    /\ UNCHANGED <<conn, server>>

\* recv returns b"" and the callback stops the connection itself.
RecvEOF_stops(c) ==
    /\ LoopIdle /\ conn[c].recv_id /\ conn[c].sock = "open"
    /\ Set(c, disable_recv(conn[c]))
    /\ Call(c, "stop_check", "idle", "disconnected")
    /\ UNCHANGED server

\* recv returns b"": disable_recv and actor_ref.tell({"close": True}), which
\* is not inside a try: on a dead actor ActorDeadError leaves the callback.
RecvEOF(c) ==
    /\ LoopIdle /\ conn[c].recv_id /\ conn[c].sock = "open"
    /\ LET r == disable_recv(conn[c]) IN
       IF r.alive
       THEN Set(c, [r EXCEPT !.inbox = tell(@, Msg("close", <<>>))])
       ELSE Set(c, [r EXCEPT !.raised = TRUE])
    /\ UNCHANGED <<loop, server>>

\* recv returns data, at most RecvSize bytes: actor_ref.tell({"received":
\* data}); on a dead actor stop("Actor is dead.").
RecvDataFrom(c, chunks, limit) ==
    /\ LoopIdle /\ conn[c].recv_id /\ conn[c].sock = "open"
    /\ \E data \in chunks :
          /\ Len(conn[c].stream) + Len(data) <= limit
          /\ LET r == [conn[c] EXCEPT !.stream = @ \o data] IN
             IF r.alive
             THEN /\ Set(c, [r EXCEPT !.inbox = tell(@, Msg("received", data))])
                  /\ UNCHANGED loop
             ELSE /\ Set(c, r)
                  /\ Call(c, "stop_check", "idle", "actor_dead")
    /\ UNCHANGED server

RecvData(c) == RecvDataFrom(c, NonEmptySeqsUpTo(Alphabet, RecvSize), MaxStream)

\* ---- Connection.send_callback, which runs while the write watch is armed
\* flags & (IO_ERR | IO_HUP): stop("Bad client flags").
SendFlags(c) ==
    /\ LoopIdle /\ conn[c].send_id
    /\ Call(c, "stop_check", "idle", "bad_flags")
    /\ UNCHANGED <<conn, server>>

\* A send_callback that waits for the lock: acquire(True).
SendLockBusy_waits(c) ==
    /\ LoopIdle /\ conn[c].send_id
    /\ conn[c].send_lock # "free"
    /\ Set(c, [conn[c] EXCEPT !.deferred = TRUE])
    /\ Call(c, "sc_wait", "idle", "")
    /\ UNCHANGED server

\* "if not self.send_lock.acquire(False): return True".  (deferred records
\* that a callback has returned this way.)
SendLockBusy(c) ==
    /\ LoopIdle /\ conn[c].send_id
    /\ conn[c].send_lock # "free"
    /\ Set(c, [conn[c] EXCEPT !.deferred = TRUE])
    /\ UNCHANGED <<loop, server>>

SendLockTaken(c) ==
    /\ LoopIdle /\ conn[c].send_id
    /\ conn[c].send_lock = "free"
    /\ Set(c, [conn[c] EXCEPT !.send_lock = "loop"])
    /\ Call(c, "sc_send", "idle", "")
    /\ UNCHANGED server

\* send_callback disarming whatever is left: disable_send() outside the if.
send_callback_end_disarm(r, buffer) ==
    [disable_send([r EXCEPT !.send_buffer = buffer]) EXCEPT
        !.send_lock = "free"]

\* The end of send_callback with the buffer as send() returned it:
\* "if not self.send_buffer: self.disable_send()", then the lock is released.
send_callback_end(r, buffer) ==
    LET b == [r EXCEPT !.send_buffer = buffer]
        d == IF buffer = <<>> THEN disable_send(b) ELSE b
    IN  [d EXCEPT !.send_lock = "free"]

\* self.send_buffer = self.send(self.send_buffer), the OS accepting n bytes.
ScSendAccepts ==
    /\ loop.pc = "sc_send"
    /\ conn[loop.c].sock = "open"
    /\ LET r == conn[loop.c] IN
       \E n \in 0..Len(r.send_buffer) :
          Set(loop.c, send_callback_end(
                 [r EXCEPT !.osSent = @ \o SubSeq(r.send_buffer, 1, n)],
                 send_rest(r.send_buffer, n)))
    /\ loop' = Idle
    /\ UNCHANGED server

\* ... the send raising EWOULDBLOCK or EINTR.
ScSendWouldBlock ==
    /\ loop.pc = "sc_send"
    /\ conn[loop.c].sock = "open"
    /\ Set(loop.c, send_callback_end(conn[loop.c], conn[loop.c].send_buffer))
    /\ loop' = Idle
    /\ UNCHANGED server

\* ... the send raising another OSError: stop() with the lock held.
ScSendFails ==
    /\ loop.pc = "sc_send"
    /\ Set(loop.c, [conn[loop.c] EXCEPT !.sendFailed = TRUE])
    /\ Call(loop.c, "stop_check", "sc_fail", "client_error")
    /\ UNCHANGED server

ScFailed ==
    /\ loop.pc = "sc_fail"
    /\ Set(loop.c, send_callback_end(conn[loop.c], <<>>))
    /\ loop' = Idle
    /\ UNCHANGED server

\* ---- Connection.timeout_callback: the idle timer fires (the callback
\* returns False, so GLib drops the source whatever stop() does).
timeout_callback(c) ==
    /\ LoopIdle /\ conn[c].timer_src
    /\ Set(c, [conn[c] EXCEPT !.timer_src = FALSE])
    /\ Call(c, "stop_check", "idle", "inactive")
    /\ UNCHANGED server

\* A step of Connection.stop run by the loop thread.
\* A stop() whose last step also removes the listener's accept watch.
LoopStop_stops_listener ==
    /\ loop.pc \in StopPcs
    /\ LET e == stop_step(conn[loop.c], loop.pc, loop.reason) IN
       /\ Set(loop.c, e.r)
       /\ loop' = IF e.pc = "ret"
                  THEN (IF loop.ret = "idle" THEN Idle
                        ELSE [loop EXCEPT !.pc = loop.ret, !.ret = "idle",
                                          !.reason = ""])
                  ELSE [loop EXCEPT !.pc = e.pc]
       /\ server' = IF e.pc = "ret" /\ loop.pc = "stop_close"
                    THEN [server EXCEPT !.watcher = FALSE]
                    ELSE server

LoopStop ==
    /\ loop.pc \in StopPcs
    /\ LET e == stop_step(conn[loop.c], loop.pc, loop.reason) IN
       /\ Set(loop.c, e.r)
       /\ loop' = IF e.pc = "ret"
                  THEN (IF loop.ret = "idle" THEN Idle
                        ELSE [loop EXCEPT !.pc = loop.ret, !.ret = "idle",
                                          !.reason = ""])
                  ELSE [loop EXCEPT !.pc = e.pc]
    /\ UNCHANGED server

\* ================================================ one Connection, its worker
\* No listener: the Connection was made by hand.
NoServer ==
    [state |-> "none", watcher |-> FALSE, max_connections |-> None,
     timeout |-> None, protocol |-> "LineProtocol", last |-> "none",
     newsock |-> "none", tick |-> 0,
     host |-> <<>>, port |-> "none", family |-> "none", path |-> FALSE,
     spc |-> "new"]

Timeouts == {0, DefaultTimeout}

Init ==
    /\ \E t \in Timeouts :
          conn = [c \in Conns |-> IF c = 1 THEN Connection("MpdSession", t)
                                  ELSE NoConnection]
    /\ loop = Idle
    /\ server = NoServer

WorkerNext(c) ==
    \/ on_start(c) \/ ActorStop(c) \/ OnClose(c) \/ OnReceived(c)
    \/ LineDecodeFails(c) \/ LineNoResponse(c) \/ LineResponse(c)
    \/ LineClose(c) \/ LineRaises(c) \/ OnReceiveEnd(c)
    \/ QsAcquire(c) \/ QsSendAccepts(c) \/ QsSendWouldBlock(c)
    \/ QsSendFails(c) \/ QsFailed(c) \/ QsCheck(c) \/ QsEnable(c)
    \/ QsEnableFails(c) \/ WorkerStop(c)

LoopNext(c) ==
    \/ RecvFlags(c) \/ RecvRetry(c) \/ RecvError(c) \/ RecvEOF(c)
    \/ RecvData(c)
    \/ SendFlags(c) \/ SendLockBusy(c) \/ SendLockTaken(c)
    \/ timeout_callback(c)

LoopCont ==
    \/ ScSendAccepts \/ ScSendWouldBlock \/ ScSendFails \/ ScFailed
    \/ LoopStop

Next ==
    \/ \E c \in Conns : WorkerNext(c)
    \/ \E c \in Conns : LoopNext(c)
    \/ LoopCont

Spec == Init /\ [][Next]_vars

\* ===================================================== the Server (listener)
\* The connections counted by their sockets instead of by their workers.
number_of_connections_open ==
    Cardinality({c \in Conns : conn[c].state = "live" /\ ~conn[c].stopping})

\* Server.number_of_connections: len(pykka.ActorRegistry.get_by_class(
\* self.protocol)), the actors of the protocol class that are registered.
number_of_connections ==
    Cardinality({c \in Conns : conn[c].state = "live" /\ conn[c].alive})

\* The limit compared with > where the code has >=.
maximum_connections_exceeded_late ==
    /\ server.max_connections # None
    /\ number_of_connections > server.max_connections

\* Server.maximum_connections_exceeded.
maximum_connections_exceeded ==
    /\ server.max_connections # None
    /\ number_of_connections >= server.max_connections

\* A slot of the model is free when it never held a connection, or holds
\* one that nothing can act on any more: its worker thread has ended, stop()
\* has closed its socket, no callback of it is running and none can start.
Free(c) ==
    \/ conn[c].state = "none"
    \/ /\ conn[c].wpc = "dead" /\ conn[c].stopDone
       /\ loop.c # c
       /\ ~conn[c].recv_id /\ ~conn[c].send_id /\ ~conn[c].timer_src

FreeSlot == CHOOSE c \in Conns : Free(c) /\ \A d \in Conns : Free(d) => c <= d

\* The listener's record after one run of handle_connection.
Handled(last, newsock) ==
    [server EXCEPT !.last = last, !.newsock = newsock, !.tick = 1 - @]

Accepting == LoopIdle /\ server.watcher

\* A transient accept error that ends the watch (return False).
AcceptRetry_unwatches ==
    /\ Accepting
    /\ server' = [Handled("retry", "none") EXCEPT !.watcher = FALSE]
    /\ UNCHANGED <<conn, loop>>

\* handle_connection, accept raising EAGAIN or EINTR: ShouldRetrySocketCall,
\* return True.
AcceptRetry ==
    /\ Accepting
    /\ server' = Handled("retry", "none")
    /\ UNCHANGED <<conn, loop>>

\* A rejection that also closes the socket of a connection it already has.
reject_connection_closes_other ==
    /\ Accepting
    /\ maximum_connections_exceeded
    /\ server' = Handled("rejected", "closed")
    /\ \E c \in Conns :
          /\ conn[c].state = "live" /\ conn[c].sock = "open"
          /\ Set(c, [conn[c] EXCEPT !.sock = "closed"])
    /\ UNCHANGED loop

\* handle_connection -> reject_connection: the new socket is closed.
reject_connection ==
    /\ Accepting
    /\ maximum_connections_exceeded
    /\ server' = Handled("rejected", "closed")
    /\ UNCHANGED <<conn, loop>>

\* handle_connection -> init_connection: Connection(protocol, ..., timeout).
init_connection ==
    /\ Accepting
    /\ ~maximum_connections_exceeded
    /\ \E c \in Conns : Free(c)
    /\ Set(FreeSlot, Connection(server.protocol, server.timeout))
    /\ server' = Handled("admitted", "open")
    /\ UNCHANGED loop

\* max_connections: None (no limit) or a non-negative integer.
MaxConnections == {None} \cup (0..MaxConns)

InitServer ==
    /\ conn = [c \in Conns |-> NoConnection]
    /\ loop = Idle
    /\ \E k \in MaxConnections :
          server = [state |-> "listening", watcher |-> TRUE,
                    max_connections |-> k, timeout |-> DefaultTimeout,
                    protocol |-> "LineProtocol", last |-> "none",
                    newsock |-> "none", tick |-> 0,
                    host |-> <<"h">>, port |-> "int", family |-> "tcp",
                    path |-> FALSE, spc |-> "run"]

\* The listener with clients that connect and send no data: they stay
\* silent, close, reset, or are timed out.
QuietWorker(c) ==
    \/ on_start(c) \/ ActorStop(c) \/ OnClose(c) \/ WorkerStop(c)

QuietLoop(c) ==
    \/ RecvFlags(c) \/ RecvRetry(c) \/ RecvError(c) \/ RecvEOF(c)
    \/ timeout_callback(c)

NextServer ==
    \/ AcceptRetry \/ reject_connection \/ init_connection
    \/ \E c \in Conns : QuietWorker(c)
    \/ \E c \in Conns : QuietLoop(c)
    \/ LoopStop

SpecServer == InitServer /\ [][NextServer]_vars

\* ================================================= framing on its own
\* One protocol instance past on_start, fed a byte stream in chunks of any
\* size; the line handler returns nothing and no timeout is configured.
FrameAlphabet == {"a", "r", "n"}

RecvFrame(c) ==
    RecvDataFrom(c, NonEmptySeqsUpTo(FrameAlphabet, MaxFrameStream),
                 MaxFrameStream)

InitFrame ==
    /\ \E p \in {"LineProtocol", "MpdSession"} :
          conn = [c \in Conns |->
                     IF c = 1 THEN [Connection(p, None) EXCEPT !.wpc = "idle"]
                     ELSE NoConnection]
    /\ loop = Idle
    /\ server = NoServer

NextFrame ==
    \E c \in Conns :
        \/ RecvFrame(c) \/ OnReceived(c) \/ LineNoResponse(c)
        \/ OnReceiveEnd(c)

SpecFrame == InitFrame /\ [][NextFrame]_vars

\* ============================================================== properties
Live(c) == conn[c].state = "live"

\* The worker of c has handled every notification given to it so far.
CaughtUp(c) ==
    /\ conn[c].wpc = "idle"
    /\ \A i \in 1..Len(conn[c].inbox) : conn[c].inbox[i].t # "received"

\* The lines parse_lines frames when the whole stream read so far arrives
\* in a single notification on an empty recv_buffer.
WholeStream(c) ==
    parse_lines(conn[c].protocol, recv_append(<<>>, conn[c].stream))

\* C1: while the connection is not stopped and no send has failed fatally,
\* the bytes the OS accepted followed by send_buffer are exactly the bytes
\* enqueued, in enqueue order: nothing is sent twice, dropped or reordered,
\* whatever prefix the OS accepts of each attempt and however queue_send and
\* send_callback interleave.
C1_SendOrder ==
    \A c \in Conns :
        (Live(c) /\ ~conn[c].stopping /\ ~conn[c].sendFailed)
            => /\ conn[c].osSent \o conn[c].send_buffer = conn[c].enq
               /\ conn[c].enq = Bytes(1, Len(conn[c].enq))

\* Two enqueues, the OS took part of the data, the rest waits for the write
\* watch.
C1_Witness ==
    \E c \in Conns :
        /\ Live(c) /\ ~conn[c].stopping /\ ~conn[c].sendFailed
        /\ Len(conn[c].enq) > GreetLen
        /\ conn[c].osSent # <<>> /\ conn[c].send_buffer # <<>>
        /\ conn[c].send_id

\* C2: however the byte stream is cut into reads, the lines framed are those
\* framed from the whole stream in one notification, and the bytes left in
\* recv_buffer are the same; while notifications are still being handled the
\* lines framed so far are a prefix of them.
C2_FramingIgnoresReadBoundaries ==
    \A c \in Conns :
        Live(c) =>
            /\ IsPrefix(conn[c].delivered, DecodedLines(WholeStream(c).lines))
            /\ CaughtUp(c) =>
                  /\ conn[c].delivered = DecodedLines(WholeStream(c).lines)
                  /\ conn[c].recv_buffer = WholeStream(c).rest

\* MpdSession, "a\r\n" read one byte at a time: the "\r\n" delimiter is split
\* between two reads and the single line "a" comes out.
C2_Witness ==
    \E c \in Conns :
        /\ Live(c) /\ conn[c].protocol = "MpdSession" /\ CaughtUp(c)
        /\ conn[c].stream = <<"a", "r", "n">> /\ conn[c].handled = 3
        /\ conn[c].delivered = <<decode(<<"a">>)>>
        /\ conn[c].recv_buffer = <<>>

LiveWorkers == {c \in Conns : Live(c) /\ conn[c].alive}

HandleConnectionStep == server'.tick # server.tick

\* C3: with max_connections = K the live workers never number more than K;
\* a run of handle_connection admits only when they number less than K and
\* rejects only when they number K or more; with max_connections = None it
\* never rejects.
C3_ConnectionLimit ==
    /\ [](server.max_connections # None
            => Cardinality(LiveWorkers) <= server.max_connections)
    /\ [][HandleConnectionStep =>
            /\ server'.last = "admitted" =>
                  \/ server.max_connections = None
                  \/ Cardinality(LiveWorkers) < server.max_connections
            /\ server'.last = "rejected" =>
                  /\ server.max_connections # None
                  /\ Cardinality(LiveWorkers) >= server.max_connections
            /\ (server'.last # "retry" /\ server.max_connections # None
                /\ Cardinality(LiveWorkers) >= server.max_connections)
                  => server'.last = "rejected"]_vars

\* The limit is reached and the next accept has just been rejected.
C3_Witness ==
    /\ server.max_connections = MaxConns
    /\ Cardinality(LiveWorkers) = MaxConns
    /\ server.last = "rejected"

\* The connections stop() has not closed.
OpenConnections == {c \in Conns : Live(c) /\ ~conn[c].stopDone}

\* C4 as stated: with K connections open the next accept is rejected and the
\* K stay as they are; once stop() has run on one of them, so that fewer than
\* K are open, the next accept is admitted.
C4_AdmitAfterStop ==
    [][(HandleConnectionStep /\ server'.last # "retry"
        /\ server.max_connections # None) =>
          /\ Cardinality(OpenConnections) >= server.max_connections
                => (server'.last = "rejected" /\ conn' = conn)
          /\ Cardinality(OpenConnections) < server.max_connections
                => server'.last = "admitted"]_vars

\* C4, amended: with K live workers the next accept is rejected, its socket
\* closed at once, and every connection stays as it is; once the worker of
\* one of them has terminated, so that fewer than K are live, the next accept
\* is admitted and gets a Connection and a worker.
C4_AdmitAfterWorkerGone ==
    [][(HandleConnectionStep /\ server'.last # "retry"
        /\ server.max_connections # None) =>
          /\ Cardinality(LiveWorkers) >= server.max_connections
                => /\ server'.last = "rejected"
                   /\ server'.newsock = "closed"
                   /\ conn' = conn
          /\ Cardinality(LiveWorkers) < server.max_connections
                => /\ server'.last = "admitted"
                   /\ \E c \in Conns :
                         /\ conn'[c] = Connection(server.protocol,
                                                  server.timeout)
                         /\ conn'[c].alive /\ conn'[c].sock = "open"
                         /\ \A d \in Conns \ {c} : conn'[d] = conn[d]]_vars

\* K = 1: the first connection was stopped and its worker has terminated;
\* the accept after that was admitted.
C4_Witness ==
    /\ server.max_connections = 1 /\ server.last = "admitted"
    /\ \E c, d \in Conns :
          /\ Live(c) /\ conn[c].stopDone /\ ~conn[c].alive
          /\ Live(d) /\ conn[d].alive /\ ~conn[d].stopping

\* C5: once stop() has completed, no watch is registered and the socket is
\* closed, in every later state.
C5_NothingArmedAfterStop ==
    \A c \in Conns :
        (Live(c) /\ conn[c].stopDone) =>
            /\ ~conn[c].recv_id /\ ~conn[c].send_id /\ ~conn[c].timeout_id
            /\ conn[c].sock = "closed"

\* C6: the body of stop() runs at most once per connection and the socket
\* is closed exactly once.
C6_TeardownOnce ==
    \A c \in Conns : Live(c) => (conn[c].stops <= 1 /\ conn[c].closes <= 1)

\* C7: a call of stop() made after a stop() has completed returns at its
\* guard: the step changes nothing of the connection (stopping stays true,
\* no stop message is queued, no watch is touched, the socket is not closed
\* again) and the caller goes on where it was.
C7_StopTwice ==
    [][\A c \in Conns :
          (Live(c) /\ conn[c].stopDone) =>
             /\ (conn[c].wpc = "stop_check" /\ conn'[c].wpc # "stop_check")
                   => conn'[c] = [conn[c] EXCEPT !.wpc = conn[c].wret,
                                                 !.wreason = "",
                                                 !.again = TRUE]
             /\ (loop.c = c /\ loop.pc = "stop_check" /\ loop' # loop)
                   => /\ conn'[c] = [conn[c] EXCEPT !.again = TRUE]
                      /\ loop'.pc = loop.ret]_vars

\* A second call has returned: one teardown, one close, stopping still true.
C7_Witness ==
    \E c \in Conns :
        /\ Live(c) /\ conn[c].again /\ conn[c].stopping
        /\ conn[c].stops = 1 /\ conn[c].closes = 1

\* No send is in progress on c: queue_send and send_callback are outside
\* their bodies.
SendAtRest(c) ==
    /\ conn[c].wpc \notin {"qs_acquire", "qs_send", "qs_fail", "qs_check",
                           "qs_enable"}
    /\ ~(conn[c].wpc \in StopPcs /\ conn[c].wret = "qs_fail")
    /\ ~(loop.c = c /\ loop.pc \in {"sc_send", "sc_fail"})
    /\ ~(loop.c = c /\ loop.pc \in StopPcs /\ loop.ret = "sc_fail")
    /\ conn[c].send_lock = "free"

\* C8: the write watch is armed if and only if send_buffer is non-empty.
C8_WriteWatchIffBuffer ==
    \A c \in Conns :
        Live(c) => (conn[c].send_id <=> conn[c].send_buffer # <<>>)

\* C8, amended: while no queue_send and no send_callback is in progress on a
\* connection that is not stopping, a non-empty send_buffer has its write
\* watch armed.  (The converse is what fails: queue_send never disarms, so
\* the watch stays armed over a buffer that queue_send drained until the
\* next send_callback.)
C8_BufferedImpliesArmed ==
    \A c \in Conns :
        (Live(c) /\ SendAtRest(c) /\ ~conn[c].stopping)
            => (conn[c].send_buffer # <<>> => conn[c].send_id)

\* At rest after a send_callback that the OS served in part: bytes were
\* accepted, bytes remain, the watch is armed.
C8_Witness ==
    \E c \in Conns :
        /\ Live(c) /\ SendAtRest(c) /\ ~conn[c].stopping
        /\ conn[c].wpc = "idle" /\ loop.pc = "idle"
        /\ conn[c].osSent # <<>> /\ conn[c].send_buffer # <<>>
        /\ conn[c].send_id

\* C9: the lines handed to on_line_received are, in order, the decodable
\* lines of the byte stream in the order the bytes were read; once the worker
\* has handled every notification given to it, they are all of them.
C9_LinesInReadOrder ==
    \A c \in Conns :
        Live(c) =>
            /\ IsPrefix(conn[c].delivered, DecodedLines(WholeStream(c).lines))
            /\ (conn[c].alive /\ CaughtUp(c)) =>
                  conn[c].delivered = DecodedLines(WholeStream(c).lines)

\* Two reads, each ending a line, both lines delivered.
C9_Witness ==
    \E c \in Conns :
        /\ Live(c) /\ conn[c].alive /\ CaughtUp(c)
        /\ conn[c].handled = 2 /\ Len(conn[c].delivered) = 2

\* ---- liveness
\* What the scheduling gives: the main loop dispatches a timer that is due
\* (it is due again and again until it is served, whatever other callbacks
\* run in between) and finishes the callback it is in; the operating system
\* keeps running a worker thread that is inside stop().  Nothing is assumed
\* of the peer or of the dispatcher.
Fairness ==
    /\ \A c \in Conns : SF_vars(timeout_callback(c))
    /\ WF_vars(LoopCont)
    /\ \A c \in Conns : WF_vars(WorkerStop(c))

\* The same connection with a positive timeout and a peer that sends one
\* byte per read, a newline or an invalid byte.
InitLive == Init /\ conn[1].timeout > 0

RecvByte(c) == RecvDataFrom(c, {<<"n">>, <<"x">>}, MaxStream)

NextLive ==
    \/ \E c \in Conns : WorkerNext(c)
    \/ \E c \in Conns :
          \/ RecvFlags(c) \/ RecvRetry(c) \/ RecvError(c) \/ RecvEOF(c)
          \/ RecvByte(c)
          \/ SendFlags(c) \/ SendLockBusy(c) \/ SendLockTaken(c)
          \/ timeout_callback(c)
    \/ LoopCont

SpecLive == InitLive /\ [][NextLive]_vars /\ Fairness

ReceivedPending(c) ==
    \E i \in 1..Len(conn[c].inbox) : conn[c].inbox[i].t = "received"

\* The step is the idle timer of c firing (timeout_callback starts stop()).
TimerFires(c) ==
    /\ loop.pc = "idle" /\ loop'.pc = "stop_check"
    /\ loop'.c = c /\ loop'.reason = "inactive"

\* C11: a byte read while the idle timer is pending cancels that timer before
\* it can fire: the timer never fires on a connection whose worker has a
\* 'received' notification to handle or is handling one, and it is armed
\* again only at the end of on_receive.
C11_ReceivedCancelsTimer ==
    [][\A c \in Conns :
          TimerFires(c) =>
              (~ReceivedPending(c) /\ conn[c].wpc # "rx_line")]_vars

\* What the scheduling gives beyond Fairness: the operating system keeps
\* running every actor thread, a thread that waits for send_lock gets it
\* (the main loop holds it only inside one send_callback), and the line
\* handler returns (or raises) on every line.
FairWorkers ==
    /\ Fairness
    /\ \A c \in Conns : WF_vars(WorkerNext(c))
    /\ \A c \in Conns : SF_vars(QsAcquire(c))

SpecFair == InitLive /\ [][NextLive]_vars /\ FairWorkers

\* The next framed line of c is about to fail in decode().
DecodeFailing(c) ==
    /\ Live(c) /\ conn[c].wpc = "rx_line"
    /\ conn[c].lines # <<>> /\ ~decodable(Head(conn[c].lines))

\* stop() has run to its end on c and its worker has ended.
Stopped(c) ==
    /\ conn[c].stopDone /\ conn[c].sock = "closed"
    /\ conn[c].wpc = "dead" /\ ~conn[c].alive

\* C12: a line that fails to decode is never handed to on_line_received,
\* and the connection is eventually stopped: the worker has ended, no watch
\* is registered with the main loop and the socket is closed.
C12_DecodeFailureStops ==
    /\ [](\A c \in Conns : \A i \in 1..Len(conn[c].delivered) :
             "?" \notin Range(conn[c].delivered[i]))
    /\ \A c \in Conns :
          DecodeFailing(c) ~>
              (Stopped(c) /\ ~conn[c].recv_id /\ ~conn[c].send_id
                          /\ ~conn[c].timer_src)

\* C13: once the worker of a connection has terminated, by a stop message
\* (on_stop, which is also how the session's close() ends it) or by a fault
\* in a handler (on_failure), Connection.stop is eventually run to its end
\* for that connection: its socket is closed and no watch of it is
\* registered with the main loop.
C13_WorkerEndStops ==
    \A c \in Conns :
        (Live(c) /\ ~conn[c].alive) ~>
            (Stopped(c) /\ ~conn[c].recv_id /\ ~conn[c].send_id
                        /\ ~conn[c].timer_src)

\* C14: a run of handle_connection that rejects closes the new socket and
\* nothing else: no connection record appears (no worker, no watch), the
\* live workers are the same, and every existing connection keeps its
\* send_buffer, its watches, its stopping flag and its socket.
C14_RejectTouchesNothingElse ==
    [][(HandleConnectionStep /\ server'.last = "rejected") =>
          /\ server'.newsock = "closed"
          /\ LiveWorkers' = LiveWorkers
          /\ \A c \in Conns :
                /\ conn'[c].state = conn[c].state
                /\ conn'[c].alive = conn[c].alive
                /\ conn'[c].send_buffer = conn[c].send_buffer
                /\ conn'[c].recv_id = conn[c].recv_id
                /\ conn'[c].send_id = conn[c].send_id
                /\ conn'[c].timeout_id = conn[c].timeout_id
                /\ conn'[c].stopping = conn[c].stopping
                /\ conn'[c].sock = conn[c].sock
                /\ conn'[c] = conn[c]
          /\ server'.watcher = server.watcher]_vars

\* A rejection with a connection in place that is open, watched and has its
\* worker.
C14_Witness ==
    /\ server.last = "rejected" /\ server.newsock = "closed"
    /\ \E c \in Conns :
          /\ Live(c) /\ conn[c].alive /\ conn[c].sock = "open"
          /\ conn[c].recv_id /\ conn[c].timeout_id /\ ~conn[c].stopping

\* ---- the send path on its own
\* A connection without idle timeout whose peer sends empty lines, one byte
\* per read, never hangs up and keeps reading: a write watch that is armed
\* gets its callback, and the OS accepts at least one byte again and again.
\* (A send may still fail, and the line handler may close or raise.)
InitDrain == Init /\ conn[1].timeout = 0

RecvLine(c) == RecvDataFrom(c, {<<terminator>>}, MaxStream)

\* send_callback's send() with the OS accepting at least one byte.
ScSendSome ==
    /\ ScSendAccepts
    /\ Len(conn'[loop.c].send_buffer) < Len(conn[loop.c].send_buffer)

\* The worker's steps on such a stream: no closing notification, no line
\* that fails to decode.
DrainWorker(c) ==
    \/ on_start(c) \/ ActorStop(c) \/ OnReceived(c)
    \/ LineNoResponse(c) \/ LineResponse(c)
    \/ LineClose(c) \/ LineRaises(c) \/ OnReceiveEnd(c)
    \/ QsAcquire(c) \/ QsSendAccepts(c) \/ QsSendWouldBlock(c)
    \/ QsSendFails(c) \/ QsFailed(c) \/ QsCheck(c) \/ QsEnable(c)
    \/ QsEnableFails(c) \/ WorkerStop(c)

NextDrain ==
    \/ \E c \in Conns : DrainWorker(c)
    \/ \E c \in Conns :
          \/ RecvRetry(c) \/ RecvLine(c)
          \/ SendLockBusy(c) \/ SendLockTaken(c)
    \/ LoopCont

FairDrain ==
    /\ WF_vars(LoopCont)
    /\ \A c \in Conns : WF_vars(DrainWorker(c))
    /\ \A c \in Conns : SF_vars(QsAcquire(c))
    /\ \A c \in Conns : SF_vars(SendLockTaken(c))
    /\ SF_vars(ScSendSome)

SpecDrain == InitDrain /\ [][NextDrain]_vars /\ FairDrain

\* C15: on a connection that is not stopped and whose peer keeps accepting
\* bytes, a non-empty send_buffer without an armed write watch does not
\* persist, and every byte queue_send has appended is eventually handed to
\* the OS, however queue_send and send_callback interleave.
C15_NoLostWakeup ==
    \A c \in Conns :
        /\ (Live(c) /\ conn[c].send_buffer # <<>> /\ ~conn[c].send_id)
              ~> (conn[c].send_id \/ conn[c].send_buffer = <<>>
                  \/ conn[c].stopping)
        /\ \A b \in 1..MaxSend :
              (Live(c) /\ b \in Range(conn[c].enq))
                  ~> (b \in Range(conn[c].osSent) \/ conn[c].stopping)

\* queue_send was about to arm the watch for the rest of a response when a
\* send_callback drained the buffer and disarmed; everything enqueued has
\* reached the OS.
C15_Witness ==
    \E c \in Conns :
        /\ Live(c) /\ ~conn[c].stopping /\ ~conn[c].sendFailed
        /\ conn[c].wpc = "qs_enable" /\ ~conn[c].send_id
        /\ conn[c].send_buffer = <<>>
        /\ Len(conn[c].enq) > GreetLen /\ conn[c].osSent = conn[c].enq

\* C16: a send_callback that finds the lock held by the worker returns at
\* once: the main loop is idle again, the lock is still the worker's,
\* send_buffer is as it was and the write watch is still armed; the main
\* loop is never inside send_callback's body while the worker holds the
\* lock, and once the lock is free an armed watch can run the callback
\* again.
C16_SendCallbackNeverBlocks ==
    /\ [][\A c \in Conns :
            (conn'[c].deferred /\ ~conn[c].deferred) =>
                /\ conn[c].send_lock = "worker"
                /\ conn'[c] = [conn[c] EXCEPT !.deferred = TRUE]
                /\ conn'[c].send_id
                /\ loop = Idle /\ loop' = Idle]_vars
    /\ [](\A c \in Conns :
            conn[c].send_lock = "worker" =>
                ~(loop.c = c /\ loop.pc \in {"sc_send", "sc_fail", "sc_wait"}))
    /\ [](\A c \in Conns :
            (Live(c) /\ loop.pc = "idle" /\ conn[c].send_id
             /\ conn[c].send_lock = "free") => ENABLED SendLockTaken(c))

\* A callback deferred to the worker, which has since released the lock;
\* a later callback has drained the buffer.
C16_Witness ==
    \E c \in Conns :
        /\ Live(c) /\ conn[c].deferred /\ ~conn[c].stopping
        /\ conn[c].send_lock = "free" /\ conn[c].wpc = "idle"
        /\ conn[c].send_buffer = <<>> /\ ~conn[c].send_id
        /\ conn[c].osSent = conn[c].enq /\ Len(conn[c].enq) = MaxSend

\* The worker of c is between queue_send's acquire and release (stop()
\* called by send() included); the main loop is between send_callback's
\* acquire and release.
InQueueSend(c) ==
    \/ conn[c].wpc \in {"qs_send", "qs_fail"}
    \/ conn[c].wpc \in StopPcs /\ conn[c].wret = "qs_fail"

InSendCallback(c) ==
    /\ loop.c = c
    /\ \/ loop.pc \in {"sc_send", "sc_fail"}
       \/ loop.pc \in StopPcs /\ loop.ret = "sc_fail"

\* C17: send_buffer changes only in a step of the thread that holds
\* send_lock; queue_send and send_callback are never both between acquire
\* and release; the lock is held exactly while one of them is, so it is free
\* again after each, also after a send that failed fatally and ran stop()
\* with the lock held; and the holder can always take its next step, so
\* neither thread waits for the other for ever.
C17_SendLockDiscipline ==
    /\ [](\A c \in Conns : Live(c) =>
            /\ ~(InQueueSend(c) /\ InSendCallback(c))
            /\ conn[c].send_lock = "worker" <=> InQueueSend(c)
            /\ conn[c].send_lock = "loop" <=> InSendCallback(c)
            /\ InQueueSend(c) => ENABLED WorkerNext(c)
            /\ InSendCallback(c) => ENABLED LoopCont)
    /\ [][\A c \in Conns :
            (Live(c) /\ conn'[c].send_buffer # conn[c].send_buffer) =>
                \/ InQueueSend(c) /\ conn'[c].wpc # conn[c].wpc
                \/ InSendCallback(c) /\ loop' # loop]_vars

\* queue_send's send failed fatally and stop() ran with the lock held; the
\* lock is free again and the worker is back in its loop.
C17_Witness ==
    \E c \in Conns :
        /\ Live(c) /\ conn[c].sendFailed /\ conn[c].stopDone
        /\ conn[c].reason = "client_error" /\ conn[c].stream = <<>>
        /\ conn[c].send_lock = "free" /\ conn[c].send_buffer = <<>>
        /\ conn[c].wpc = "idle" /\ loop.pc = "idle"

\* ---- decoding on its own
\* One protocol instance past on_start, fed newlines and bytes that are not
\* valid in the encoding, in chunks of any size; the line handler returns
\* nothing and no timeout is configured.
DecodeAlphabet == {"n", "x"}

RecvDecode(c) ==
    RecvDataFrom(c, NonEmptySeqsUpTo(DecodeAlphabet, MaxDecodeStream),
                 MaxDecodeStream)

NextDecode ==
    \/ \E c \in Conns :
          \/ RecvDecode(c) \/ OnReceived(c) \/ LineDecodeFails(c)
          \/ LineNoResponse(c) \/ OnReceiveEnd(c)
          \/ ActorStop(c) \/ WorkerStop(c)
    \/ LoopStop

SpecDecode == InitFrame /\ [][NextDecode]_vars

\* C18: once a line of a connection has failed to decode, no line of that
\* connection is handed to on_line_received any more, neither a later line
\* of the same notification nor a line of a notification already queued.
C18_NoLineAfterDecodeFailure ==
    [][\A c \in Conns :
          Len(conn'[c].delivered) > Len(conn[c].delivered)
              => ~conn[c].decodeFailed]_vars

\* C19: when the worker takes the closing notification, no 'received'
\* notification is left in its inbox and every decodable line of the bytes
\* read before the EOF has been handed to on_line_received; taking it calls
\* Connection.stop; and after it no line is handed to on_line_received.
C19_CloseAfterReceived ==
    [][\A c \in Conns :
          /\ (conn'[c].closeSeen /\ ~conn[c].closeSeen) =>
                /\ ~ReceivedPending(c)
                /\ conn[c].delivered = DecodedLines(WholeStream(c).lines)
                /\ conn'[c].wpc = "stop_check"
                /\ conn'[c].wreason = "disconnected"
          /\ conn[c].closeSeen => conn'[c].delivered = conn[c].delivered]_vars

\* Two reads, two lines dispatched, then the EOF: the worker took the
\* closing notification last and its stop() closed the connection.
C19_Witness ==
    \E c \in Conns :
        /\ Live(c) /\ conn[c].closeSeen
        /\ conn[c].handled = 2 /\ Len(conn[c].delivered) = 2
        /\ conn[c].stopDone /\ conn[c].reason = "disconnected"
        /\ conn[c].stops = 1

\* The step is recv_callback seeing the peer's EOF on c: the read watch goes
\* while the main loop is idle and no stop() of the worker is removing it.
SeesEOF(c) ==
    /\ conn[c].recv_id /\ ~conn'[c].recv_id
    /\ loop.pc = "idle" /\ conn[c].wpc # "stop_recv"

\* The closing notification of c waits in the worker's inbox.
ClosePending(c) ==
    \E i \in 1..Len(conn[c].inbox) : conn[c].inbox[i].t = "close"

\* C20: recv_callback on a zero-length read removes the read watch and, the
\* worker being alive, appends the closing notification to its inbox; it
\* changes nothing else: stopping, the socket, send_buffer, the write watch
\* and the timer are as before and the main loop is idle, so an armed write
\* watch can go on draining send_buffer while the notification waits.
C20_EOFOnlyNotifies ==
    /\ [][\A c \in Conns :
            SeesEOF(c) =>
                /\ conn'[c].stopping = conn[c].stopping
                /\ conn'[c].sock = conn[c].sock
                /\ conn'[c].send_buffer = conn[c].send_buffer
                /\ conn'[c].send_id = conn[c].send_id
                /\ conn'[c].timeout_id = conn[c].timeout_id
                /\ conn[c].alive =>
                      conn'[c] = [conn[c] EXCEPT
                                     !.recv_id = FALSE,
                                     !.inbox = Append(@, Msg("close", <<>>))]
                /\ loop' = loop]_vars
    /\ [](\A c \in Conns :
            (Live(c) /\ ClosePending(c) /\ ~conn[c].stopping
             /\ conn[c].send_id /\ conn[c].send_lock = "free"
             /\ loop.pc = "idle") => ENABLED SendLockTaken(c))

\* After the EOF, with the closing notification not yet handled: the socket
\* is open, bytes are still queued and part of the output has been sent.
C20_Witness ==
    \E c \in Conns :
        /\ Live(c) /\ ClosePending(c) /\ ~conn[c].recv_id
        /\ ~conn[c].stopping /\ conn[c].sock = "open"
        /\ conn[c].send_buffer # <<>> /\ conn[c].send_id
        /\ conn[c].osSent # <<>>

\* ---- the idle timer and prevent_timeout
\* The connection of Spec with a line handler that may also switch
\* prevent_timeout.
NextTimer ==
    \/ Next
    \/ \E c \in Conns : LinePreventTimeout(c)

SpecTimer == Init /\ [][NextTimer]_vars

\* The worker of c is inside on_receive with a 'received' notification:
\* between two lines, or in a queue_send or a stop() called from a handler.
Processing(c) ==
    \/ conn[c].wpc = "rx_line"
    \/ /\ conn[c].wpc \in {"qs_acquire", "qs_send", "qs_fail", "qs_check",
                           "qs_enable"}
       /\ conn[c].qret = "rx_line"
    \/ /\ conn[c].wpc \in StopPcs
       /\ \/ conn[c].wret = "rx_line"
          \/ conn[c].wret = "qs_fail" /\ conn[c].qret = "rx_line"

\* C21: while the worker is inside on_receive with a 'received' notification
\* the idle timer is not armed; the timer is armed only by the end of
\* on_receive, when no framed line is left, so never between two lines of a
\* notification; that step arms it when prevent_timeout is false (and a
\* positive timeout is configured) and leaves it disarmed when
\* prevent_timeout is true.
C21_TimerOffWhileProcessing ==
    /\ [](\A c \in Conns :
            (Live(c) /\ Processing(c)) =>
                (~conn[c].timeout_id /\ ~conn[c].timer_src))
    /\ [][\A c \in Conns :
            /\ (Live(c) /\ ~conn[c].timeout_id /\ conn'[c].timeout_id) =>
                  /\ conn[c].wpc = "rx_line" /\ conn[c].lines = <<>>
                  /\ ~conn[c].prevent_timeout
                  /\ conn'[c].wpc = "idle"
            /\ (Live(c) /\ conn[c].wpc = "rx_line" /\ conn'[c].wpc = "idle") =>
                  /\ conn[c].lines = <<>>
                  /\ conn'[c].timeout_id <=>
                        (~conn[c].prevent_timeout /\ conn[c].timeout > 0)
                  /\ conn'[c].timer_src = conn'[c].timeout_id]_vars

\* Two notifications handled with prevent_timeout switched on by a line of
\* the first: the timer that was running before is off and stays off.
C21_Witness ==
    \E c \in Conns :
        /\ Live(c) /\ conn[c].timeout > 0 /\ ~conn[c].stopping
        /\ conn[c].prevent_timeout /\ conn[c].handled = 2
        /\ conn[c].wpc = "idle" /\ ~conn[c].timeout_id /\ ~conn[c].timer_src

\* ---- stops that start on the main loop
\* A connection with an idle timeout whose peer sends at most one empty
\* line and may reset or hang up at any time; sends may fail.  Every actor
\* thread keeps running and the line handler returns or raises.
RecvStopLine(c) == RecvDataFrom(c, {<<terminator>>}, MaxStopStream)

NextIOStop ==
    \/ \E c \in Conns : DrainWorker(c)
    \/ \E c \in Conns :
          \/ RecvFlags(c) \/ RecvRetry(c) \/ RecvError(c)
          \/ RecvStopLine(c)
          \/ SendFlags(c) \/ SendLockBusy(c) \/ SendLockTaken(c)
          \/ timeout_callback(c)
    \/ LoopCont

FairIOStop ==
    /\ WF_vars(LoopCont)
    /\ \A c \in Conns : WF_vars(DrainWorker(c))
    /\ \A c \in Conns : SF_vars(QsAcquire(c))

SpecIOStop == InitLive /\ [][NextIOStop]_vars /\ FairIOStop

\* The main loop is inside a stop() of c that went past the guard and has
\* just signalled the worker.
LoopSignalled(c) ==
    loop.c = c /\ loop.pc = "stop_timeout"

\* C22: once a stop() run by a callback of the main loop (idle timeout,
\* fatal read or send error, ERR/HUP flag) has signalled the worker, the
\* worker eventually leaves the registry and its thread ends, given that
\* its handlers return; and stop() never waits: at each of its positions
\* the main loop can take the next step whatever the worker does.
C22_LoopStopEndsWorker ==
    /\ \A c \in Conns :
          (Live(c) /\ LoopSignalled(c)) ~>
              (~conn[c].alive /\ conn[c].wpc = "dead")
    /\ [](loop.pc \in StopPcs => ENABLED LoopStop)

\* The idle timer stopped the connection, and the worker has ended after
\* handling the notification that was queued for it.
C22_Witness ==
    \E c \in Conns :
        /\ Live(c) /\ conn[c].reason = "inactive" /\ conn[c].stops = 1
        /\ conn[c].stopDone /\ conn[c].handled = 1
        /\ ~conn[c].alive /\ conn[c].wpc = "dead" /\ loop.pc = "idle"

\* ---- the steps of one stop()
\* The positions of a stop() that went past its guard, in program order.
StopOrder == <<"stop_set", "stop_signal", "stop_timeout", "stop_recv",
               "stop_send", "stop_close">>

PastGuard == Range(StopOrder)

StopIndex(pc) == CHOOSE i \in DOMAIN StopOrder : StopOrder[i] = pc

\* What the step taken at position pc has done to the connection: r
\* before, r2 after.
StopEffect(pc, r, r2) ==
    CASE pc = "stop_set" -> r2.stopping
      [] pc = "stop_signal" ->
            r2.inbox = IF r.alive
                       THEN Append(r.inbox, Msg("stop", <<>>))
                       ELSE r.inbox
      [] pc = "stop_timeout" -> ~r2.timeout_id /\ ~r2.timer_src
      [] pc = "stop_recv" -> ~r2.recv_id
      [] pc = "stop_send" -> ~r2.send_id
      [] pc = "stop_close" -> r2.sock = "closed"

\* pc2 is where a thread stands after the step it took at pc.
StopNext(pc, pc2) ==
    IF pc = "stop_close" THEN pc2 \notin StopPcs
    ELSE pc2 = StopOrder[StopIndex(pc) + 1]

\* C23: a stop() that went past its guard sets stopping, then signals the
\* worker without waiting, then removes the timeout, read and write watches
\* and then closes the socket, in that order, on the main loop and on a
\* worker thread alike; with a dead worker the signal step changes
\* nothing and the call goes on to the next step; no step raises; and the
\* call reaches its end.
C23_StopStepsInOrder ==
    /\ [][/\ (loop.pc \in PastGuard /\ loop' # loop) =>
               /\ StopNext(loop.pc, loop'.pc)
               /\ StopEffect(loop.pc, conn[loop.c], conn'[loop.c])
               /\ conn'[loop.c].raised = conn[loop.c].raised
          /\ \A c \in Conns :
               (conn[c].wpc \in PastGuard /\ conn'[c].wpc # conn[c].wpc) =>
                   /\ StopNext(conn[c].wpc, conn'[c].wpc)
                   /\ StopEffect(conn[c].wpc, conn[c], conn'[c])
                   /\ conn'[c].raised = conn[c].raised]_vars
    /\ \A c \in Conns :
          (Live(c) /\ conn[c].stopping /\ conn[c].stops > 0)
              ~> conn[c].stopDone

\* A stop() that found the worker dead (on_failure, after the line handler
\* raised) has gone through to the socket close.
C23_Witness ==
    \E c \in Conns :
        /\ Live(c) /\ conn[c].reason = "failed" /\ conn[c].stops = 1
        /\ conn[c].stopDone /\ conn[c].sock = "closed"
        /\ ~conn[c].recv_id /\ ~conn[c].timeout_id /\ ~conn[c].raised

\* ---- notifications to a dead worker
\* C24: no ActorDeadError leaves recv_callback, neither from the
\* data-received notification nor from the closing notification.
C24_NoErrorFromRecv ==
    \A c \in Conns : Live(c) => ~conn[c].raised

\* ---- one connection torn down next to another
\* A listener at its limit with two admitted clients of a protocol that
\* sends no greeting.  The first client
\* sends at most one line, empty or with a byte the encoding rejects, and
\* its reads and sends may fail; its handlers may respond, raise or close.
\* The other client sends nothing: it is reset or is timed out.
\* The accept watch keeps firing (transient errors and rejections); no
\* further client is admitted.
InitPeers ==
    /\ conn = [c \in Conns |-> Connection("LineProtocol", DefaultTimeout)]
    /\ loop = Idle
    /\ server = [state |-> "listening", watcher |-> TRUE,
                 max_connections |-> MaxConns, timeout |-> DefaultTimeout,
                 protocol |-> "LineProtocol", last |-> "admitted",
                 newsock |-> "open", tick |-> 0,
                 host |-> <<"h">>, port |-> "int", family |-> "tcp",
                 path |-> FALSE, spc |-> "run"]

Talker == CHOOSE c \in Conns : \A d \in Conns : c <= d

RecvPeerLine(c) ==
    RecvDataFrom(c, {<<terminator>>, <<"x", terminator>>}, MaxPeerStream)

NextPeers ==
    \/ AcceptRetry \/ reject_connection
    \/ DrainWorker(Talker) \/ LineDecodeFails(Talker)
    \/ RecvPeerLine(Talker) \/ RecvError(Talker)
    \/ SendFlags(Talker) \/ SendLockBusy(Talker) \/ SendLockTaken(Talker)
    \/ \E c \in Conns \ {Talker} :
          on_start(c) \/ ActorStop(c) \/ WorkerStop(c)
    \/ \E c \in Conns \ {Talker} : RecvFlags(c) \/ timeout_callback(c)
    \/ LoopCont

SpecPeers == InitPeers /\ [][NextPeers]_vars

\* This step is a step of a stop() of c, by the main loop or by c's worker.
StopStepOf(c) ==
    \/ loop.c = c /\ loop.pc \in StopPcs /\ loop' # loop
    \/ conn[c].wpc \in StopPcs /\ conn'[c].wpc # conn[c].wpc

\* C25: no step of a stop() of one connection, whatever its reason,
\* changes anything of another connection, and the listener keeps its accept
\* watch and its listening socket.
C25_StopTouchesNothingElse ==
    [][\A c \in Conns :
          StopStepOf(c) =>
              /\ \A d \in Conns \ {c} : conn'[d] = conn[d]
              /\ server'.watcher /\ server'.state = "listening"
              /\ server' = server]_vars

\* One connection has been torn down to the end while the other is open,
\* watched, served by its worker, and the listener still accepts.
C25_Witness ==
    \E c, d \in Conns :
        /\ c # d
        /\ Live(c) /\ conn[c].stopDone /\ conn[c].sock = "closed"
        /\ Live(d) /\ conn[d].alive /\ ~conn[d].stopping
        /\ conn[d].sock = "open" /\ conn[d].recv_id /\ conn[d].timeout_id
        /\ server.watcher /\ server.state = "listening"

\* ---- failing sends
\* The worker of c leaves the branch of queue_send whose send failed for
\* good: send() has called stop() and returned b"".
QueueSendFailed(c) ==
    conn[c].wpc = "qs_fail" /\ conn'[c].wpc # "qs_fail"

\* The main loop leaves the same branch of send_callback.
SendCallbackFailed(c) ==
    loop.c = c /\ loop.pc = "sc_fail" /\ loop'.pc # "sc_fail"

\* The send of queue_send ends with EWOULDBLOCK or EINTR: nothing went out.
QueueSendBlocked(c) ==
    /\ conn[c].wpc = "qs_send" /\ conn'[c].wpc = "qs_check"
    /\ conn'[c].osSent = conn[c].osSent

\* The same in send_callback, with bytes waiting.
SendCallbackBlocked(c) ==
    /\ loop.c = c /\ loop.pc = "sc_send" /\ loop'.pc = "idle"
    /\ conn[c].send_buffer # <<>>
    /\ conn'[c].osSent = conn[c].osSent

\* No other thread is inside a stop() of c.
LoopNotStopping(c) == ~(loop.c = c /\ loop.pc \in StopPcs)

WorkerNotStopping(c) == conn[c].wpc \notin StopPcs

\* C26: a send that fails for good, in queue_send or in send_callback,
\* leaves the connection stopping, send_buffer empty and the write watch
\* removed (looked at when no other thread is still inside stop()); a send
\* that would block removes nothing from send_buffer and does not stop the
\* connection, and send_callback leaves the write watch armed.
C26_SendFailures ==
    [][\A c \in Conns :
          /\ (QueueSendFailed(c) /\ LoopNotStopping(c)) =>
                /\ conn'[c].stopping /\ conn'[c].send_buffer = <<>>
                /\ ~conn'[c].send_id
          /\ (SendCallbackFailed(c) /\ WorkerNotStopping(c)) =>
                /\ conn'[c].stopping /\ conn'[c].send_buffer = <<>>
                /\ ~conn'[c].send_id
          /\ QueueSendBlocked(c) =>
                /\ conn'[c].send_buffer = conn[c].send_buffer \o conn[c].wdata
                /\ conn'[c].stopping = conn[c].stopping
          /\ (SendCallbackBlocked(c) /\ ~conn[c].stopping) =>
                /\ conn'[c].send_buffer = conn[c].send_buffer
                /\ ~conn'[c].stopping /\ conn'[c].send_id]_vars

\* ---- errors of the receive
\* The main loop returns from a stop() that recv_callback started.
RecvStopReturns(c) ==
    /\ loop.c = c /\ loop.pc \in StopPcs /\ loop.ret = "idle"
    /\ loop.reason \in {"bad_flags", "client_error"}
    /\ loop'.pc = "idle"

\* C27: in recv_callback a would-block or interrupted error changes nothing
\* of the connection (the read watch stays, the worker's inbox is as it
\* was); another OSError from recv and an ERR or HUP flag make the callback
\* run stop(), after which the connection is stopping; and one readiness
\* event reads once, at most RecvSize bytes, which go to the worker in one
\* notification.
C27_RecvErrors ==
    [][\A c \in Conns :
          /\ RecvRetry(c) =>
                /\ conn' = conn /\ loop' = loop
                /\ conn'[c].recv_id /\ conn'[c].inbox = conn[c].inbox
          /\ (RecvError(c) \/ RecvFlags(c)) =>
                /\ loop'.pc = "stop_check" /\ loop'.c = c
                /\ conn' = conn
          /\ RecvStopReturns(c) => conn'[c].stopping
          /\ conn'[c].stream # conn[c].stream =>
                \E data \in NonEmptySeqsUpTo(Alphabet, RecvSize) :
                   /\ conn'[c].stream = conn[c].stream \o data
                   /\ conn[c].alive =>
                         conn'[c].inbox =
                            Append(conn[c].inbox, Msg("received", data))]_vars

\* A fatal error of recv, after data had been received and handed on, has
\* stopped the connection.
C27_Witness ==
    \E c \in Conns :
        /\ Live(c) /\ conn[c].reason = "client_error" /\ ~conn[c].sendFailed
        /\ conn[c].stream # <<>> /\ conn[c].handled > 0
        /\ conn[c].stopDone /\ loop.pc = "idle"

LinesWorker(c) ==
    \/ OnReceived(c) \/ LineSendLines(c) \/ OnReceiveEnd(c)
    \/ QsAcquire(c) \/ QsSendAccepts(c) \/ QsSendWouldBlock(c)
    \/ QsSendFails(c) \/ QsFailed(c) \/ QsCheck(c) \/ QsEnable(c)
    \/ QsEnableFails(c) \/ ActorStop(c) \/ WorkerStop(c)

NextLines ==
    \/ \E c \in Conns : LinesWorker(c)
    \/ \E c \in Conns : RecvLine(c) \/ SendLockBusy(c) \/ SendLockTaken(c)
    \/ LoopCont

FairLines ==
    /\ WF_vars(LoopCont)
    /\ \A c \in Conns : WF_vars(LinesWorker(c))
    /\ \A c \in Conns : SF_vars(QsAcquire(c))

SpecLines == InitFrame /\ [][NextLines]_vars /\ FairLines

\* The bytes of one entry as the peer is to see them.
EntryBytes(e) ==
    IF e.bytes THEN e.v ELSE [i \in 1..Len(e.v) |-> ByteOf(e.v[i])]

\* Every entry in list order, each followed by the terminator.
RECURSIVE Terminated(_)
Terminated(lines) ==
    IF lines = <<>> THEN <<>>
    ELSE EntryBytes(Head(lines)) \o <<terminator>> \o Terminated(Tail(lines))

Encodable(lines) ==
    \A i \in DOMAIN lines : lines[i].bytes \/ encodable(lines[i].v)

\* This step is the worker of c calling send_lines from its line handler.
SendLinesStep(c) ==
    Len(conn'[c].delivered) = Len(conn[c].delivered) + 1

\* C29: send_lines with a non-empty list whose entries can all be encoded
\* enters queue_send once, with the entries in list order, text encoded and
\* raw bytes as they are, each followed by the terminator, and queue_send
\* adds exactly those bytes to what was enqueued; send_lines with an empty
\* list enqueues nothing and leaves send_buffer and the write watch alone.
C29_SendLinesOutput ==
    [][\A c \in Conns :
          /\ SendLinesStep(c) =>
                LET lines == conn'[c].sent_lines IN
                /\ (lines # <<>> /\ Encodable(lines)) =>
                      /\ conn'[c].wpc = "qs_acquire"
                      /\ conn'[c].wdata = Terminated(lines)
                      /\ conn'[c].wdata[Len(conn'[c].wdata)] = terminator
                /\ lines = <<>> =>
                      /\ conn'[c].wpc = "rx_line" /\ conn'[c].wdata = <<>>
                      /\ conn'[c].lines = Tail(conn[c].lines)
                /\ conn'[c].enq = conn[c].enq
                /\ conn'[c].send_buffer = conn[c].send_buffer
                /\ conn'[c].send_id = conn[c].send_id
          /\ conn'[c].enq # conn[c].enq =>
                /\ conn[c].wpc = "qs_send"
                /\ conn'[c].enq = conn[c].enq \o Terminated(conn[c].sent_lines)
                /\ conn'[c].wpc \in {"qs_check", "stop_check"}
          /\ (conn[c].wpc = "qs_check" /\ conn'[c].wpc # "qs_enable"
                  /\ conn'[c].wpc # "qs_check")
                => conn'[c].wpc = "rx_line"
          /\ (conn[c].wpc = "qs_enable" /\ conn'[c].wpc \notin StopPcs
                  /\ conn'[c].wpc # "qs_enable")
                => conn'[c].wpc = "rx_line"]_vars

\* A second response of two entries, one text and one raw, has been
\* enqueued whole behind the first one.
C29_Witness ==
    \E c \in Conns :
        /\ Live(c) /\ Len(conn[c].delivered) = 2
        /\ conn[c].sent_lines = <<Text(<<"A">>), Raw(<<"a">>)>>
        /\ Len(conn[c].enq) > 4
        /\ conn[c].wpc = "idle"

\* C30: when an entry of the list given to send_lines cannot be encoded,
\* nothing of that list is enqueued, the entries before the failing one
\* included: queue_send is not entered, and what was enqueued and what is
\* buffered never grow again; and the connection is eventually stopped:
\* stop() has run to its end and the worker has ended.
C30_EncodeFailureStops ==
    /\ [][\A c \in Conns :
             /\ (SendLinesStep(c) /\ ~Encodable(conn'[c].sent_lines)) =>
                   /\ conn'[c].wdata = <<>>
                   /\ conn'[c].wpc \notin {"qs_acquire", "qs_send"}
                   /\ ~conn'[c].alive
             /\ ~Encodable(conn'[c].sent_lines) =>
                   /\ conn'[c].enq = conn[c].enq
                   /\ Len(conn'[c].send_buffer) <= Len(conn[c].send_buffer)]_vars
    /\ \A c \in Conns :
          (Live(c) /\ ~Encodable(conn[c].sent_lines)) ~> Stopped(c)

\* A list whose second entry cannot be encoded was given to send_lines
\* after an answer had been enqueued; only that answer was enqueued and the
\* connection is stopped.
C30_Witness ==
    \E c \in Conns :
        /\ Live(c) /\ Len(conn[c].delivered) = 2
        /\ conn[c].sent_lines = <<Text(<<"A">>), Text(<<"S">>)>>
        /\ conn[c].enq = <<"a", terminator>>
        /\ Stopped(c)

\* ---- the greeting
\* The text of the greeting, "OK MPD <version>", as GreetLen characters.
GreetingLine == Text([i \in 1..GreetLen |-> "A"])

\* MpdSession.on_start with the bytes spelled out:
\* self.send_lines([f"OK MPD {protocol.VERSION}"]).
on_start_lines(c) ==
    /\ WorkerAt(c, "start")
    /\ conn[c].protocol = "MpdSession"
    /\ LET r == conn[c]
           data == join_lines(encoded_lines(<<GreetingLine>>))
       IN  Set(c, [r EXCEPT !.wdata = data, !.made = @ + Len(data),
                            !.wpc = "qs_acquire", !.qret = "idle"])
    /\ UNCHANGED <<loop, server>>

\* A new MpdSession connection without idle timeout whose peer sends empty
\* lines at once, before the worker has started; every line is answered
\* through send_lines.
InitGreeting ==
    /\ conn = [c \in Conns |->
                  IF c = Talker THEN Connection("MpdSession", None)
                  ELSE NoConnection]
    /\ loop = Idle
    /\ server = NoServer

NextGreeting ==
    \/ \E c \in Conns : on_start_lines(c)
    \/ NextLines

SpecGreeting == InitGreeting /\ [][NextGreeting]_vars

\* The greeting as the peer is to see it.
GreetingBytes == EntryBytes(GreetingLine) \o <<terminator>>

\* C31: on an MpdSession connection the greeting line followed by the
\* terminator is the first data handed to queue_send: whatever has been
\* enqueued starts with it, and no "received" notification is handled, and
\* no line answered, before it has been enqueued.
C31_GreetingFirst ==
    /\ [](\A c \in Conns :
            (Live(c) /\ conn[c].protocol = "MpdSession") =>
                /\ conn[c].enq # <<>> => IsPrefix(GreetingBytes, conn[c].enq)
                /\ (conn[c].handled > 0 \/ conn[c].delivered # <<>>
                        \/ conn[c].sent_lines # <<>>)
                      => IsPrefix(GreetingBytes, conn[c].enq))
    /\ [][\A c \in Conns :
             conn'[c].handled # conn[c].handled =>
                 conn[c].wpc = "idle" /\ conn[c].made >= Len(GreetingBytes)]_vars

\* A line that arrived before the greeting was sent has been answered, and
\* the answer was enqueued behind the greeting.
C31_Witness ==
    \E c \in Conns :
        /\ Live(c) /\ conn[c].protocol = "MpdSession"
        /\ conn[c].handled > 0 /\ conn[c].sent_lines = <<Raw(<<"a">>)>>
        /\ conn[c].enq = GreetingBytes \o <<"a", terminator>>

\* ======================================== the listener made and taken down
\* Host strings as character sequences: a path target, a host name, and a
\* host name that only looks like the prefix.
UnixPrefix == <<"u", "n", "i", "x", ":">>

Hosts == {UnixPrefix \o <<"p">>, <<"h">>, <<"u", "n", "i", "x">>}

\* The port argument by its Python type: an int, a str, or None.
Ports == {"int", "str", "none"}

\* A get_unix_socket_path that takes the bare word for a path target.
get_unix_socket_path_loose(socket_path) ==
    IF IsPrefix(<<"u", "n", "i", "x">>, socket_path)
    THEN [none |-> FALSE, v |-> SubSeq(socket_path, 5, Len(socket_path))]
    ELSE [none |-> TRUE, v |-> <<>>]

\* get_unix_socket_path: re.search("^unix:(.*)", socket_path), group 1 or
\* None.
get_unix_socket_path(socket_path) ==
    IF IsPrefix(UnixPrefix, socket_path)
    THEN [none |-> FALSE,
          v |-> SubSeq(socket_path, Len(UnixPrefix) + 1, Len(socket_path))]
    ELSE [none |-> TRUE, v |-> <<>>]

\* Server.__init__ -> create_server_socket(host, port), then
\* register_server_socket.  A path target makes a Unix socket bound to the
\* path (the port is not looked at); otherwise a port that is not an int
\* raises TypeError before any socket is made, and __init__ ends there.
ServerInit ==
    /\ server.spc = "new"
    /\ \E host \in Hosts, port \in Ports :
          LET socket_path == get_unix_socket_path(host)
              s == [server EXCEPT !.host = host, !.port = port]
          IN  IF ~socket_path.none
              THEN server' = [s EXCEPT !.family = "unix", !.path = TRUE,
                                       !.state = "listening",
                                       !.watcher = TRUE, !.spc = "run"]
              ELSE IF port # "int"
              THEN server' = [s EXCEPT !.spc = "type_error"]
              ELSE server' = [s EXCEPT !.family = "tcp",
                                       !.state = "listening",
                                       !.watcher = TRUE, !.spc = "run"]
    /\ UNCHANGED <<conn, loop>>

\* Server.stop, statement by statement.  GLib.source_remove(self.watcher)
\* and the getsockname() of a Unix socket:
ServerStopBegin ==
    /\ server.spc = "run"
    /\ server' = [server EXCEPT !.watcher = FALSE, !.spc = "shutdown"]
    /\ UNCHANGED <<conn, loop>>

\* self.server_socket.shutdown(socket.SHUT_RDWR) returns.
ServerShutdown ==
    /\ server.spc = "shutdown"
    /\ server' = [server EXCEPT !.spc = "close"]
    /\ UNCHANGED <<conn, loop>>

\* ... or raises OSError (ENOTCONN on platforms that refuse to shut down a
\* socket that is listening and not connected): nothing catches it, so
\* stop() ends here.
ServerShutdownRaises ==
    /\ server.spc = "shutdown"
    /\ server' = [server EXCEPT !.spc = "raised"]
    /\ UNCHANGED <<conn, loop>>

\* A stop() that ends at the close and leaves the path where it is.
ServerClose_keeps_path ==
    /\ server.spc = "close"
    /\ server' = [server EXCEPT !.state = "closed", !.spc = "stopped"]
    /\ UNCHANGED <<conn, loop>>

\* self.server_socket.close().
ServerClose ==
    /\ server.spc = "close"
    /\ server' = [server EXCEPT !.state = "closed",
                                !.spc = IF server.family = "unix"
                                        THEN "unlink" ELSE "stopped"]
    /\ UNCHANGED <<conn, loop>>

\* os.unlink(unix_socket_path).
ServerUnlink ==
    /\ server.spc = "unlink"
    /\ server' = [server EXCEPT !.path = FALSE, !.spc = "stopped"]
    /\ UNCHANGED <<conn, loop>>

\* A listener from its construction to its stop; its clients send nothing
\* and are reset or timed out.
InitListener ==
    /\ conn = [c \in Conns |-> NoConnection]
    /\ loop = Idle
    /\ server = [NoServer EXCEPT !.max_connections = MaxConns,
                                 !.timeout = DefaultTimeout]

NextListener ==
    \/ ServerInit
    \/ AcceptRetry \/ reject_connection \/ init_connection
    \/ \E c \in Conns : on_start(c) \/ ActorStop(c) \/ WorkerStop(c)
    \/ \E c \in Conns : RecvFlags(c) \/ timeout_callback(c)
    \/ LoopStop
    \/ ServerStopBegin \/ ServerShutdown \/ ServerShutdownRaises
    \/ ServerClose \/ ServerUnlink

SpecListener == InitListener /\ [][NextListener]_vars

\* Server.stop has returned.
ServerStopReturned == server.spc = "stopped"

\* C32: when Server.stop has returned, the accept watch is removed, the
\* listening socket is closed and no socket path is left in the
\* filesystem; only a listener on a path removes a path, in the last
\* statement of stop; and from the first statement of Server.stop on,
\* handle_connection never runs again.
C32_ServerStop ==
    /\ [](ServerStopReturned =>
             /\ ~server.watcher /\ server.state = "closed"
             /\ ~server.path)
    /\ [][(server.path /\ ~server'.path) =>
             /\ server.family = "unix" /\ server.spc = "unlink"
             /\ server'.spc = "stopped"]_vars
    /\ [][server.spc \notin {"new", "run"} =>
             /\ ~HandleConnectionStep
             /\ ~server'.watcher
             /\ LiveWorkers' \subseteq LiveWorkers]_vars

\* A listener on a path that had admitted a client has been stopped: its
\* path is gone, and the client's connection is still there.
C32_Witness ==
    /\ ServerStopReturned /\ server.family = "unix"
    /\ ~server.path /\ ~server.watcher /\ server.state = "closed"
    /\ server.last = "admitted"
    /\ \E c \in Conns : Live(c) /\ conn[c].alive /\ conn[c].sock = "open"

\* ---- the listener's arguments
\* This step is Server.__init__ ending, with a listener or with an error.
CreationStep == server.spc = "new" /\ server'.spc # "new"

\* The host names a path: it starts with "unix:".
IsPathTarget(host) ==
    /\ Len(host) >= Len(UnixPrefix)
    /\ \A i \in DOMAIN UnixPrefix : host[i] = UnixPrefix[i]

\* C33 as stated: a path target together with a numeric port, and a TCP
\* host together with a port that is not an integer, end the construction
\* with an error and without an accept watch.
C33_MismatchRejected ==
    [][(/\ CreationStep
        /\ \/ IsPathTarget(server'.host) /\ server'.port = "int"
           \/ ~IsPathTarget(server'.host) /\ server'.port # "int")
          => server'.spc = "type_error" /\ ~server'.watcher]_vars

\* C33 as the code has it: a TCP host with a port that is not an integer
\* ends the construction with TypeError, before any socket is made and
\* with no accept watch; a path target gives a listening Unix socket bound
\* to the path, with its accept watch, whatever the port is; a TCP host
\* with an integer port gives a listening TCP socket.
C33_PortCheckedForTcpOnly ==
    [][CreationStep =>
          IF IsPathTarget(server'.host)
          THEN /\ server'.spc = "run" /\ server'.family = "unix"
               /\ server'.state = "listening" /\ server'.watcher
               /\ server'.path
          ELSE IF server'.port # "int"
          THEN /\ server'.spc = "type_error" /\ ~server'.watcher
               /\ server'.state = "none" /\ server'.family = "none"
               /\ ~server'.path
          ELSE /\ server'.spc = "run" /\ server'.family = "tcp"
               /\ server'.state = "listening" /\ server'.watcher
               /\ ~server'.path]_vars

\* A TCP host was given a str as port: no listener, no watch.
C33_Witness ==
    /\ server.spc = "type_error" /\ server.host = <<"h">>
    /\ server.port = "str"
    /\ ~server.watcher /\ server.state = "none"

====
